---- MODULE Spec2Model ----
(***************************************************************************)
(* Model of ironic/nova/volume_driver.py: the bare-metal volume driver     *)
(* that exports block devices through the tgtd iSCSI target daemon.        *)
(*                                                                         *)
(* Strings are sequences of one-character strings, so that the regular     *)
(* expressions, str.split, str.replace, str.strip and int() of the source  *)
(* are computed character by character.                                    *)
(***************************************************************************)
EXTENDS Integers, Sequences, FiniteSets, TLC

(***************************************************************************)
(* Bounds of the model.                                                    *)
(***************************************************************************)
\* calls (attach_volume / detach_volume) started in one behaviour, when calls
\* may overlap
MaxCalls == 2
\* calls started in one behaviour, when calls run one at a time
MaxSeqCalls == 3
\* lines of a status text drawn for the parser checks
MaxLines == 3

(***************************************************************************)
(* Character-level helpers.                                                *)
(***************************************************************************)
Digits == <<"0", "1", "2", "3", "4", "5", "6", "7", "8", "9">>

IsDigit(c) == \E i \in 1..10 : Digits[i] = c

DigitVal(c) == (CHOOSE i \in 1..10 : Digits[i] = c) - 1

StartsWith(s, p) == Len(p) <= Len(s) /\ SubSeq(s, 1, Len(p)) = p

\* s[i..], the rest of s from position i on
From(s, i) == SubSeq(s, i, Len(s))

\* position of the first occurrence of the character c in s, 0 when absent
IndexOf(s, c) ==
    IF \E i \in 1..Len(s) : s[i] = c
    THEN CHOOSE i \in 1..Len(s) : s[i] = c /\ \A j \in 1..(i - 1) : s[j] # c
    ELSE 0

\* str.split('\n')
RECURSIVE Split(_)
Split(s) ==
    LET k == IndexOf(s, "\n")
    IN  IF k = 0 THEN <<s>>
        ELSE <<SubSeq(s, 1, k - 1)>> \o Split(From(s, k + 1))

\* '\n'.join(lines)
RECURSIVE Join(_)
Join(lines) ==
    IF lines = <<>> THEN <<>>
    ELSE IF Len(lines) = 1 THEN lines[1]
    ELSE lines[1] \o <<"\n">> \o Join(Tail(lines))

\* int(s) of a string of decimal digits
RECURSIVE ParseInt(_)
ParseInt(s) ==
    IF s = <<>> THEN 0
    ELSE 10 * ParseInt(SubSeq(s, 1, Len(s) - 1)) + DigitVal(s[Len(s)])

\* str(n) / "%s" % n of a natural number
RECURSIVE IntToStr(_)
IntToStr(n) ==
    IF n < 10 THEN <<Digits[n + 1]>>
    ELSE IntToStr(n \div 10) \o <<Digits[(n % 10) + 1]>>

\* number of consecutive digits of s starting at position i (the greedy \d+)
RECURSIVE DigitRun(_, _)
DigitRun(s, i) ==
    IF i <= Len(s) /\ IsDigit(s[i]) THEN 1 + DigitRun(s, i + 1) ELSE 0

\* number of consecutive spaces of s starting at position i (the greedy " *")
RECURSIVE SpaceRun(_, _)
SpaceRun(s, i) ==
    IF i <= Len(s) /\ s[i] = " " THEN 1 + SpaceRun(s, i + 1) ELSE 0

(***************************************************************************)
(* The status parser and the identifier allocator.                         *)
(***************************************************************************)
TargetLit == <<"T", "a", "r", "g", "e", "t", " ">>

\* re.search(r'^Target (\d+):', line): matched, group(1) as int, and the
\* position right after the colon
ReTargetHeader(line) ==
    LET n == DigitRun(line, Len(TargetLit) + 1)
        colon == Len(TargetLit) + n + 1
    IN  IF /\ StartsWith(line, TargetLit)
           /\ n >= 1
           /\ colon <= Len(line)
           /\ line[colon] = ":"
        THEN [matched |-> TRUE,
              tid |-> ParseInt(SubSeq(line, Len(TargetLit) + 1, Len(TargetLit) + n)),
              after |-> colon + 1]
        ELSE [matched |-> FALSE, tid |-> 0, after |-> 0]

\* a faulty loop: without the comparison last_tid < tid, the last header wins
RECURSIVE ScanLastTidMutLess(_, _)
ScanLastTidMutLess(lines, last_tid) ==
    IF lines = <<>> THEN last_tid
    ELSE LET m == ReTargetHeader(Head(lines))
         IN  ScanLastTidMutLess(Tail(lines),
                                IF m.matched THEN m.tid ELSE last_tid)

\* the loop of _get_next_tid over the lines, carrying last_tid
RECURSIVE ScanLastTid(_, _)
ScanLastTid(lines, last_tid) ==
    IF lines = <<>> THEN last_tid
    ELSE LET m == ReTargetHeader(Head(lines))
         IN  ScanLastTid(Tail(lines),
                         IF m.matched /\ last_tid < m.tid THEN m.tid ELSE last_tid)

\* faulty variants of _get_next_tid: the faulty loop, and last_tid returned
\* without the + 1
get_next_tid_mut_last(out) == ScanLastTidMutLess(Split(out), 0) + 1

get_next_tid_mut_noinc(out) == ScanLastTid(Split(out), 0)

\* _get_next_tid, applied to the output of _show_tgtadm
get_next_tid(out) == ScanLastTid(Split(out), 0) + 1

\* re.search(r'^Target (\d+): *' + re.escape(iqn), line): the literal iqn has
\* to follow the colon and some of the spaces after it; nothing anchors the
\* end of the line
ReTargetIqn(line, iqn) ==
    LET m == ReTargetHeader(line)
    IN  /\ m.matched
        /\ \E k \in 0..SpaceRun(line, m.after) :
              StartsWith(From(line, m.after + k), iqn)

\* "not found": the None of _find_tid
None == -1

\* the loop of _find_tid over the lines
RECURSIVE ScanFindTid(_, _)
ScanFindTid(lines, iqn) ==
    IF lines = <<>> THEN None
    ELSE IF ReTargetIqn(Head(lines), iqn) THEN ReTargetHeader(Head(lines)).tid
    ELSE ScanFindTid(Tail(lines), iqn)

\* _find_tid, applied to the output of _show_tgtadm
find_tid(out, iqn) == ScanFindTid(Split(out), iqn)

\* mountpoint.replace('/', '-')
ReplaceSlash(s) == [i \in 1..Len(s) |-> IF s[i] = "/" THEN "-" ELSE s[i]]

\* str.lstrip('-') and str.rstrip('-'), together str.strip('-')
RECURSIVE LStrip(_)
LStrip(s) == IF s # <<>> /\ Head(s) = "-" THEN LStrip(Tail(s)) ELSE s

RECURSIVE RStrip(_)
RStrip(s) ==
    IF s # <<>> /\ s[Len(s)] = "-" THEN RStrip(SubSeq(s, 1, Len(s) - 1)) ELSE s

Strip(s) == RStrip(LStrip(s))

\* CONF.iscsi_iqn_prefix (a configuration string; shortened here)
iscsi_iqn_prefix == <<"i", "q", "n">>

\* a faulty variant: only the leading hyphens are stripped
get_iqn_mut_lstrip(instance_name, mountpoint) ==
    iscsi_iqn_prefix \o <<":">> \o instance_name \o <<"-">>
        \o LStrip(ReplaceSlash(mountpoint))

\* _get_iqn
get_iqn(instance_name, mountpoint) ==
    iscsi_iqn_prefix \o <<":">> \o instance_name \o <<"-">>
        \o Strip(ReplaceSlash(mountpoint))

\* mountpoint.rpartition("/")[2]: what follows the last "/"
RECURSIVE RPartitionTail(_)
RPartitionTail(s) ==
    LET k == IndexOf(s, "/")
    IN  IF k = 0 THEN s ELSE RPartitionTail(From(s, k + 1))

\* "Backing store path: ", the literal of the pattern of line 133
BackingLit ==
    <<"B", "a", "c", "k", "i", "n", "g", " ", "s", "t", "o", "r", "e", " ",
      "p", "a", "t", "h", ":", " ">>

\* the leftmost position at or after k where lit occurs in s, 0 when nowhere
RECURSIVE SearchFrom(_, _, _)
SearchFrom(s, lit, k) ==
    IF k + Len(lit) - 1 > Len(s) THEN 0
    ELSE IF SubSeq(s, k, k + Len(lit) - 1) = lit THEN k
    ELSE SearchFrom(s, lit, k + 1)

\* re.search(r'Backing store path: (.*)$', line): matched, and group(1), the
\* rest of the line after the leftmost occurrence of the literal
ReBackingStore(line) ==
    LET k == SearchFrom(line, BackingLit, 1)
    IN  IF k = 0 THEN [matched |-> FALSE, value |-> <<>>]
        ELSE [matched |-> TRUE, value |-> From(line, k + Len(BackingLit))]

\* a faulty loop: the test '/' in m.group(1) is missing
RECURSIVE ScanBackingStoreMutAll(_, _)
ScanBackingStoreMutAll(lines, l) ==
    IF lines = <<>> THEN l
    ELSE LET m == ReBackingStore(Head(lines))
         IN  ScanBackingStoreMutAll(Tail(lines),
                                    IF m.matched THEN Append(l, m.value) ELSE l)

\* the loop of _list_backingstore_path over the lines, carrying the list l
RECURSIVE ScanBackingStore(_, _)
ScanBackingStore(lines, l) ==
    IF lines = <<>> THEN l
    ELSE LET m == ReBackingStore(Head(lines))
         IN  ScanBackingStore(Tail(lines),
                              IF m.matched /\ IndexOf(m.value, "/") # 0
                              THEN Append(l, m.value) ELSE l)

\* a faulty variant of _list_backingstore_path, with the faulty loop
list_backingstore_path_mut_all(out) == ScanBackingStoreMutAll(Split(out), <<>>)

\* _list_backingstore_path, applied to the output of _show_tgtadm
list_backingstore_path(out) == ScanBackingStore(Split(out), <<>>)

(***************************************************************************)
(* Inputs of the calls.                                                    *)
(***************************************************************************)
\* (instance name, mount point) pairs the compute framework attaches
Exports ==
    { [name |-> <<"a">>, mountpoint |-> <<"/", "c">>],
      [name |-> <<"a">>, mountpoint |-> <<"/", "c", "1">>],
      [name |-> <<"a", "-", "b">>, mountpoint |-> <<"/", "c">>],
      [name |-> <<"a">>, mountpoint |-> <<"/", "b", "/", "c">>] }

\* connection_info: its 'driver_volume_type' and its data['device_path']
ConnInfos ==
    { [driver_volume_type |-> "iscsi", device_path |-> <<"/", "x">>],
      [driver_volume_type |-> "bogus", device_path |-> <<"/", "z">>] }

\* no connection_info: the caller is in no call
NoConn == [driver_volume_type |-> "", device_path |-> <<>>]

\* the keys of self.volume_drivers, from CONF.libvirt_volume_drivers
volume_drivers == {"iscsi", "fake"}

\* db.bm_pxe_ip_get_by_bm_node_id: no record, or a record with an address
NoPxeIp == <<>>

PxeAddresses == { <<"1", ".", "2">> }

ALL == <<"A", "L", "L">>

\* exit codes of tgtadm: success, "no such target", any other failure
ExitOk == 0

ExitNoTarget == 22

\* the exit codes of a tgtadm that fails for any other reason
OtherExitCodes == {107}

Workers == {"w1", "w2"}

(***************************************************************************)
(* State.                                                                  *)
(***************************************************************************)
VARIABLES
    targets,           \* the daemon's targets, in the order it lists them
    connected,         \* the devices the transport sub-drivers hold connected
    use_unsafe_iscsi,  \* CONF.use_unsafe_iscsi
    pc,                \* where each call stands
    op,                \* "attach_volume" or "detach_volume"
    conn,              \* the call's connection_info
    inst,              \* instance['name']
    mp,                \* mountpoint
    pxe_ip,            \* the address of the instance's PXE record, or NoPxeIp
    iqn,               \* the local iqn
    tid,               \* the local tid
    exc,               \* the exception in flight, and the one raised at the end
    tgt,               \* the tgtadm commands the call has executed
    vdm,               \* the call's uses of _volume_driver_method
    warned,            \* the call's LOG.warn messages
    ncalls,            \* calls started so far
    ptext, piqn, r_next_tid, r_find_tid,  \* the parser applied to a status text
    r_block_devices    \* what get_all_block_devices returned or raised

dvars == <<targets, connected, use_unsafe_iscsi>>

wvars == <<pc, op, conn, inst, mp, pxe_ip, iqn, tid, exc, tgt, vdm, warned, ncalls>>

pvars == <<ptext, piqn, r_next_tid, r_find_tid, r_block_devices>>

vars == <<dvars, wvars, pvars>>

NoExc == [type |-> "none", msg |-> "", code |-> 0, tid |-> 0]

\* exception.NovaException('No fixed PXE IP is associated to %s')
PolicyError == [type |-> "NovaException", msg |-> "No fixed PXE IP", code |-> 0, tid |-> 0]

\* exception.NovaException('baremetal driver was unable to delete tid %s' % tid)
ConsistencyError(t) ==
    [type |-> "NovaException", msg |-> "unable to delete tid", code |-> 0, tid |-> t]

\* exception.ProcessExecutionError of utils.execute: the command and exit code
ProcessExecutionError(cmd, t, rc) ==
    [type |-> "ProcessExecutionError", msg |-> cmd, code |-> rc, tid |-> t]

\* exception.VolumeDriverNotFound(driver_type=...)
VolumeDriverNotFound(driver_type) ==
    [type |-> "VolumeDriverNotFound", msg |-> driver_type, code |-> 0, tid |-> 0]

\* whatever a transport sub-driver raises
SubDriverError == [type |-> "SubDriverError", msg |-> "", code |-> 0, tid |-> 0]

(***************************************************************************)
(* The target daemon, as the tgtadm commands see it.                       *)
(***************************************************************************)
NoLun == <<>>

LiveTids == { targets[i].tid : i \in 1..Len(targets) }

TargetOf(t) == targets[CHOOSE i \in 1..Len(targets) : targets[i].tid = t]

Indent == <<" ", " ", " ", " ">>

NoneLit == <<"N", "o", "n", "e">>

RECURSIVE AclLines(_)
AclLines(acl) ==
    IF acl = <<>> THEN <<>>
    ELSE Indent \o Head(acl) \o <<"\n">> \o AclLines(Tail(acl))

\* the lines tgtd prints for one target: its header, the backing store of the
\* controller LUN 0 and of LUN 1, and the initiator addresses bound to it
TargetText(t) ==
    TargetLit \o IntToStr(t.tid) \o <<":", " ">> \o t.name \o <<"\n">>
    \o Indent \o BackingLit \o NoneLit \o <<"\n">>
    \o (IF t.lun = NoLun THEN <<>> ELSE Indent \o BackingLit \o t.lun \o <<"\n">>)
    \o AclLines(t.acl)

RECURSIVE StatusText(_)
StatusText(tgs) ==
    IF tgs = <<>> THEN <<>> ELSE TargetText(Head(tgs)) \o StatusText(Tail(tgs))

\* the out of _show_tgtadm when tgtadm exits with 0
show_tgtadm == StatusText(targets)

\* tgtd keeps its list of targets in the order of their tids
InsertByTid(tgs, x) ==
    SelectSeq(tgs, LAMBDA y : y.tid < x.tid) \o <<x>>
        \o SelectSeq(tgs, LAMBDA y : y.tid > x.tid)

RemoveTid(tgs, t) == SelectSeq(tgs, LAMBDA x : x.tid # t)

\* one executed command, as recorded in tgt
Cmd(o, t, a, rc) == [op |-> o, tid |-> t, arg |-> a, rc |-> rc]


(***************************************************************************)
(* utils.execute('tgtadm', ...): the outcomes of one command.  A command   *)
(* can fail for reasons of its own (the daemon is down, the device is      *)
(* busy); otherwise the daemon answers from its targets.                   *)
(***************************************************************************)
\* --mode target --op show: the exit codes it can end with
ShowCodes == {ExitOk} \cup OtherExitCodes

LiveNames == { targets[i].name : i \in 1..Len(targets) }

\* --mode target --op new --tid t --targetname name: tgtd refuses a tid and
\* a target name it already has
NewTargetCodes(t, name) ==
    IF t \in LiveTids \/ name \in LiveNames THEN OtherExitCodes
    ELSE {ExitOk} \cup OtherExitCodes

\* --mode logicalunit --op new --tid t --lun 1 --backing-store path
NewLunCodes(t) ==
    IF t \notin LiveTids THEN {ExitNoTarget}
    ELSE IF TargetOf(t).lun # NoLun THEN OtherExitCodes
    ELSE {ExitOk} \cup OtherExitCodes

\* --mode target --op bind --tid t --initiator-address address
BindCodes(t) ==
    IF t \notin LiveTids THEN {ExitNoTarget} ELSE {ExitOk} \cup OtherExitCodes

\* --mode logicalunit --op delete --tid t --lun 1
DeleteLunCodes(t) ==
    IF t \notin LiveTids THEN {ExitNoTarget}
    ELSE IF TargetOf(t).lun = NoLun THEN OtherExitCodes
    ELSE {ExitOk} \cup OtherExitCodes

\* --mode target --op delete --tid t
DeleteTargetCodes(t) ==
    IF t \notin LiveTids THEN {ExitNoTarget} ELSE {ExitOk} \cup OtherExitCodes

\* --mode target --op show --tid t
ShowTidCodes(t) ==
    IF t \notin LiveTids THEN {ExitNoTarget} \cup OtherExitCodes
    ELSE {ExitOk} \cup OtherExitCodes

\* the targets after a command on target t that exited with 0
WithLun(t, path) ==
    [i \in 1..Len(targets) |->
        IF targets[i].tid = t THEN [targets[i] EXCEPT !.lun = path] ELSE targets[i]]

WithAcl(t, address) ==
    [i \in 1..Len(targets) |->
        IF targets[i].tid = t
        THEN [targets[i] EXCEPT !.acl = Append(@, address)]
        ELSE targets[i]]

(***************************************************************************)
(* Init.                                                                   *)
(***************************************************************************)
InitDriver ==
    /\ targets = <<>>
    /\ connected = {}
    /\ pc = [w \in Workers |-> "idle"]
    /\ op = [w \in Workers |-> "none"]
    /\ conn = [w \in Workers |-> NoConn]
    /\ inst = [w \in Workers |-> <<>>]
    /\ mp = [w \in Workers |-> <<>>]
    /\ pxe_ip = [w \in Workers |-> NoPxeIp]
    /\ iqn = [w \in Workers |-> <<>>]
    /\ tid = [w \in Workers |-> 0]
    /\ exc = [w \in Workers |-> NoExc]
    /\ tgt = [w \in Workers |-> <<>>]
    /\ vdm = [w \in Workers |-> <<>>]
    /\ warned = [w \in Workers |-> <<>>]
    /\ ncalls = 0

\* a function of the parser not yet applied, and its result once it was
NotRun == [ran |-> FALSE, val |-> 0]

Result(v) == [ran |-> TRUE, val |-> v]

\* get_all_block_devices not yet called, and its outcome once it was
NotCalled == [ran |-> FALSE, exc |-> NoExc, val |-> <<>>]

Returned(l) == [ran |-> TRUE, exc |-> NoExc, val |-> l]

Raised(e) == [ran |-> TRUE, exc |-> e, val |-> <<>>]

InitParser ==
    /\ ptext = <<>>
    /\ piqn = <<>>
    /\ r_next_tid = NotRun
    /\ r_find_tid = NotRun
    /\ r_block_devices = NotCalled

\* CONF.use_unsafe_iscsi is set or not (lines 32-36)
Init == InitDriver /\ use_unsafe_iscsi \in BOOLEAN /\ InitParser

(***************************************************************************)
(* The end of a call: its frame is dropped.  A call that has ended returns *)
(* before any other step is taken; nothing of its frame is visible to the  *)
(* other callers or to the daemon.                                         *)
(***************************************************************************)
Return(w) ==
    /\ pc[w] = "done"
    /\ pc' = [pc EXCEPT ![w] = "idle"]
    /\ op' = [op EXCEPT ![w] = "none"]
    /\ conn' = [conn EXCEPT ![w] = NoConn]
    /\ inst' = [inst EXCEPT ![w] = <<>>]
    /\ mp' = [mp EXCEPT ![w] = <<>>]
    /\ pxe_ip' = [pxe_ip EXCEPT ![w] = NoPxeIp]
    /\ iqn' = [iqn EXCEPT ![w] = <<>>]
    /\ tid' = [tid EXCEPT ![w] = 0]
    /\ exc' = [exc EXCEPT ![w] = NoExc]
    /\ tgt' = [tgt EXCEPT ![w] = <<>>]
    /\ vdm' = [vdm EXCEPT ![w] = <<>>]
    /\ warned' = [warned EXCEPT ![w] = <<>>]
    /\ UNCHANGED <<dvars, ncalls, pvars>>

Returning == \E w \in Workers : pc[w] = "done"

(***************************************************************************)
(* LibvirtVolumeDriver._volume_driver_method.                              *)
(***************************************************************************)
\* one use of the dispatcher, as recorded in vdm: the method asked for, the
\* sub-driver it was forwarded to ("": to none), the mount device passed on,
\* and whether the use raised
Dispatch(method, driver_type, dev, raised) ==
    [method |-> method, driver_type |-> driver_type, dev |-> dev, raised |-> raised]

\* a faulty variant: the test of line 210 is missing
RegisteredMutAny(driver_type) == TRUE

\* line 210: driver_type is a key of self.volume_drivers
Registered(driver_type) == driver_type \in volume_drivers

\* the device a sub-driver holds connected for a connection_info
Device(ci) == [driver |-> ci.driver_volume_type, path |-> ci.device_path]

(***************************************************************************)
(* attach_volume.                                                          *)
(***************************************************************************)
\* a faulty variant: the exception is dropped and the call returns
FinishMutSwallow(w, e) ==
    /\ pc' = [pc EXCEPT ![w] = "done"]
    /\ exc' = [exc EXCEPT ![w] = NoExc]

\* a call ends with the exception e raised (NoExc: it returns)
Finish(w, e) ==
    /\ pc' = [pc EXCEPT ![w] = "done"]
    /\ exc' = [exc EXCEPT ![w] = e]

\* a faulty variant: the "not" of line 221 is missing
PolicyRefusesMutFlag(ip) == ip = NoPxeIp /\ use_unsafe_iscsi

\* lines 220-221: no PXE address and unsafe mode off
PolicyRefuses(ip) == ip = NoPxeIp /\ ~use_unsafe_iscsi

\* lines 216-223: the node and PXE address lookups and the policy check
AttachStart(w, ci, e, ip) ==
    /\ ~Returning
    /\ pc[w] = "idle"
    /\ ncalls' = ncalls + 1
    /\ op' = [op EXCEPT ![w] = "attach_volume"]
    /\ conn' = [conn EXCEPT ![w] = ci]
    /\ inst' = [inst EXCEPT ![w] = e.name]
    /\ mp' = [mp EXCEPT ![w] = e.mountpoint]
    /\ pxe_ip' = [pxe_ip EXCEPT ![w] = ip]
    /\ iqn' = [iqn EXCEPT ![w] = <<>>]
    /\ tid' = [tid EXCEPT ![w] = 0]
    /\ tgt' = [tgt EXCEPT ![w] = <<>>]
    /\ vdm' = [vdm EXCEPT ![w] = <<>>]
    /\ warned' = [warned EXCEPT ![w] = <<>>]
    /\ IF PolicyRefuses(ip)
       THEN Finish(w, PolicyError)
       ELSE /\ pc' = [pc EXCEPT ![w] = "connect"]
            /\ exc' = [exc EXCEPT ![w] = NoExc]
    /\ UNCHANGED <<dvars, pvars>>

\* lines 225-230: connect_volume through the dispatcher, then the iqn
AttachConnect(w) ==
    /\ ~Returning
    /\ pc[w] = "connect"
    /\ LET ci == conn[w]
           dev == RPartitionTail(mp[w])
       IN  IF ~Registered(ci.driver_volume_type)
           THEN /\ vdm' = [vdm EXCEPT ![w] =
                        Append(@, Dispatch("connect_volume", "", dev, TRUE))]
                /\ Finish(w, VolumeDriverNotFound(ci.driver_volume_type))
                /\ UNCHANGED <<connected, iqn>>
           ELSE \/ /\ vdm' = [vdm EXCEPT ![w] = Append(@,
                            Dispatch("connect_volume", ci.driver_volume_type, dev, FALSE))]
                   /\ connected' = connected \cup {Device(ci)}
                   /\ iqn' = [iqn EXCEPT ![w] = get_iqn(inst[w], mp[w])]
                   /\ pc' = [pc EXCEPT ![w] = "get_next_tid"]
                   /\ UNCHANGED exc
                \/ /\ vdm' = [vdm EXCEPT ![w] = Append(@,
                            Dispatch("connect_volume", ci.driver_volume_type, dev, TRUE))]
                   /\ Finish(w, SubDriverError)
                   /\ UNCHANGED <<connected, iqn>>
    /\ UNCHANGED <<targets, use_unsafe_iscsi, op, conn, inst, mp, pxe_ip, tid, tgt,
                   warned, ncalls, pvars>>

\* the attach calls that hold a tid whose target they have not yet created
InWindow(w) == op[w] = "attach_volume" /\ pc[w] = "new_target"

\* a variant that sets aside the tids other attach calls hold
AllocTidMutReserve(w) ==
    get_next_tid(show_tgtadm) + Cardinality({v \in Workers \ {w} : InWindow(v)})

\* line 231: the tid an attach takes from the status it has just read
AllocTid(w) == get_next_tid(show_tgtadm)

\* line 231: _get_next_tid, with its _show_tgtadm
AttachGetNextTid(w) ==
    /\ ~Returning
    /\ pc[w] = "get_next_tid"
    /\ \E rc \in ShowCodes :
          /\ tgt' = [tgt EXCEPT ![w] = Append(@, Cmd("show", 0, <<>>, rc))]
          /\ IF rc = ExitOk
             THEN /\ tid' = [tid EXCEPT ![w] = AllocTid(w)]
                  /\ pc' = [pc EXCEPT ![w] = "new_target"]
                  /\ UNCHANGED exc
             ELSE /\ Finish(w, ProcessExecutionError("show", 0, rc))
                  /\ UNCHANGED tid
    /\ UNCHANGED <<dvars, op, conn, inst, mp, pxe_ip, iqn, vdm, warned, ncalls, pvars>>

\* a faulty variant: the new logical unit is left out
AfterNewTargetMutBind == "bind"

\* lines 58-70: what follows the new target in _create_iscsi_export_tgtadm
AfterNewTarget == "new_lun"

\* lines 58-63: _create_iscsi_export_tgtadm, the new target
AttachNewTarget(w) ==
    /\ ~Returning
    /\ pc[w] = "new_target"
    /\ \E rc \in NewTargetCodes(tid[w], iqn[w]) :
          /\ tgt' = [tgt EXCEPT ![w] = Append(@, Cmd("new_target", tid[w], iqn[w], rc))]
          /\ IF rc = ExitOk
             THEN /\ targets' = InsertByTid(targets,
                            [tid |-> tid[w], name |-> iqn[w], lun |-> NoLun, acl |-> <<>>])
                  /\ pc' = [pc EXCEPT ![w] = AfterNewTarget]
                  /\ UNCHANGED exc
             ELSE /\ Finish(w, ProcessExecutionError("new_target", tid[w], rc))
                  /\ UNCHANGED targets
    /\ UNCHANGED <<connected, use_unsafe_iscsi, op, conn, inst, mp, pxe_ip, iqn, tid,
                   vdm, warned, ncalls, pvars>>

\* lines 64-70: _create_iscsi_export_tgtadm, the new logical unit
AttachNewLun(w) ==
    /\ ~Returning
    /\ pc[w] = "new_lun"
    /\ \E rc \in NewLunCodes(tid[w]) :
          /\ tgt' = [tgt EXCEPT ![w] =
                        Append(@, Cmd("new_lun", tid[w], conn[w].device_path, rc))]
          /\ IF rc = ExitOk
             THEN /\ targets' = WithLun(tid[w], conn[w].device_path)
                  /\ pc' = [pc EXCEPT ![w] = "bind"]
                  /\ UNCHANGED exc
             ELSE /\ Finish(w, ProcessExecutionError("new_lun", tid[w], rc))
                  /\ UNCHANGED targets
    /\ UNCHANGED <<connected, use_unsafe_iscsi, op, conn, inst, mp, pxe_ip, iqn, tid,
                   vdm, warned, ncalls, pvars>>

\* a faulty variant: the branch on pxe_ip is missing
BindAddressMutAll(ip) == ALL

\* lines 234-244: the address the target is bound to
BindAddress(ip) == IF ip # NoPxeIp THEN ip ELSE ALL

\* lines 234-244 and 73-79: _allow_iscsi_tgtadm
AttachBind(w) ==
    /\ ~Returning
    /\ pc[w] = "bind"
    /\ \E rc \in BindCodes(tid[w]) :
          /\ tgt' = [tgt EXCEPT ![w] =
                        Append(@, Cmd("bind", tid[w], BindAddress(pxe_ip[w]), rc))]
          /\ IF rc = ExitOk
             THEN /\ targets' = WithAcl(tid[w], BindAddress(pxe_ip[w]))
                  /\ Finish(w, NoExc)
             ELSE /\ Finish(w, ProcessExecutionError("bind", tid[w], rc))
                  /\ UNCHANGED targets
    /\ UNCHANGED <<connected, use_unsafe_iscsi, op, conn, inst, mp, pxe_ip, iqn, tid,
                   vdm, warned, ncalls, pvars>>

(***************************************************************************)
(* detach_volume.                                                          *)
(***************************************************************************)
\* a faulty variant: the disconnect follows the block instead of being its
\* finally clause
TryExitMutNoFinally(e) == IF e = NoExc THEN "disconnect" ELSE "done"

\* lines 248-258: where control goes when the try block is left with e in
\* flight (NoExc: it ran to its end): always to the finally clause
TryExit(e) == "disconnect"

\* a faulty variant: the test of tid against None is missing
DetachBranchMutNoCheck(t) == "delete_lun"

\* lines 251-254: the branch on the tid that _find_tid returned
DetachBranch(t) == IF t # None THEN "delete_lun" ELSE TryExit(NoExc)

\* lines 246-254: the iqn, _find_tid with its _show_tgtadm, and the branch
DetachFindTid(w, ci, e) ==
    /\ ~Returning
    /\ pc[w] = "idle"
    /\ ncalls' = ncalls + 1
    /\ op' = [op EXCEPT ![w] = "detach_volume"]
    /\ conn' = [conn EXCEPT ![w] = ci]
    /\ inst' = [inst EXCEPT ![w] = e.name]
    /\ mp' = [mp EXCEPT ![w] = e.mountpoint]
    /\ pxe_ip' = [pxe_ip EXCEPT ![w] = NoPxeIp]
    /\ iqn' = [iqn EXCEPT ![w] = get_iqn(e.name, e.mountpoint)]
    /\ vdm' = [vdm EXCEPT ![w] = <<>>]
    /\ \E rc \in ShowCodes :
          /\ tgt' = [tgt EXCEPT ![w] = <<Cmd("show", 0, <<>>, rc)>>]
          /\ IF rc # ExitOk
             THEN /\ exc' = [exc EXCEPT ![w] = ProcessExecutionError("show", 0, rc)]
                  /\ tid' = [tid EXCEPT ![w] = 0]
                  /\ warned' = [warned EXCEPT ![w] = <<>>]
                  /\ pc' = [pc EXCEPT ![w] =
                                TryExit(ProcessExecutionError("show", 0, rc))]
             ELSE LET t == find_tid(show_tgtadm, get_iqn(e.name, e.mountpoint))
                  IN  /\ exc' = [exc EXCEPT ![w] = NoExc]
                      /\ tid' = [tid EXCEPT ![w] = t]
                      /\ warned' = [warned EXCEPT ![w] =
                            IF t # None THEN <<>>
                            ELSE <<"detach volume could not find tid">>]
                      /\ pc' = [pc EXCEPT ![w] = DetachBranch(t)]
    /\ UNCHANGED <<dvars, pvars>>

\* a faulty variant: a failed delete of the logical unit leaves the try block
AfterDeleteLunMutRaise(rc) ==
    IF rc = ExitOk THEN "delete_target"
    ELSE TryExit(ProcessExecutionError("delete_lun", 0, rc))

\* lines 83-92: where control goes after the delete of the logical unit has
\* exited with rc; "except ProcessExecutionError: pass" makes it the same place
AfterDeleteLun(rc) == "delete_target"

\* lines 92-106: the same after the delete of the target
AfterDeleteTarget(rc) == "show_tid"

\* lines 83-91: the logical unit is deleted, a failure is passed over
DetachDeleteLun(w) ==
    /\ ~Returning
    /\ pc[w] = "delete_lun"
    /\ \E rc \in DeleteLunCodes(tid[w]) :
          /\ tgt' = [tgt EXCEPT ![w] = Append(@, Cmd("delete_lun", tid[w], <<>>, rc))]
          /\ targets' = IF rc = ExitOk THEN WithLun(tid[w], NoLun) ELSE targets
          /\ pc' = [pc EXCEPT ![w] = AfterDeleteLun(rc)]
    /\ UNCHANGED <<connected, use_unsafe_iscsi, op, conn, inst, mp, pxe_ip, iqn, tid,
                   exc, vdm, warned, ncalls, pvars>>

\* lines 92-99: the target is deleted, a failure is passed over
DetachDeleteTarget(w) ==
    /\ ~Returning
    /\ pc[w] = "delete_target"
    /\ \E rc \in DeleteTargetCodes(tid[w]) :
          /\ tgt' = [tgt EXCEPT ![w] = Append(@, Cmd("delete_target", tid[w], <<>>, rc))]
          /\ targets' = IF rc = ExitOk THEN RemoveTid(targets, tid[w]) ELSE targets
          /\ pc' = [pc EXCEPT ![w] = AfterDeleteTarget(rc)]
    /\ UNCHANGED <<connected, use_unsafe_iscsi, op, conn, inst, mp, pxe_ip, iqn, tid,
                   exc, vdm, warned, ncalls, pvars>>

\* a faulty variant: every ProcessExecutionError of the show is passed over
ShowTidOutcomeMutSwallow(t, rc) ==
    IF rc = ExitOk THEN ConsistencyError(t) ELSE NoExc

\* lines 106-118: what the check of the deleted tid raises for an exit code
ShowTidOutcome(t, rc) ==
    IF rc = ExitOk THEN ConsistencyError(t)
    ELSE IF rc = ExitNoTarget THEN NoExc
    ELSE ProcessExecutionError("show_tid", t, rc)

\* lines 100-118: the check that the tid no longer exists
DetachShowTid(w) ==
    /\ ~Returning
    /\ pc[w] = "show_tid"
    /\ \E rc \in ShowTidCodes(tid[w]) :
          /\ tgt' = [tgt EXCEPT ![w] = Append(@, Cmd("show_tid", tid[w], <<>>, rc))]
          /\ exc' = [exc EXCEPT ![w] = ShowTidOutcome(tid[w], rc)]
          /\ pc' = [pc EXCEPT ![w] = TryExit(ShowTidOutcome(tid[w], rc))]
    /\ UNCHANGED <<dvars, op, conn, inst, mp, pxe_ip, iqn, tid, vdm, warned, ncalls,
                   pvars>>

\* lines 255-258: the finally clause, disconnect_volume through the dispatcher;
\* an exception it raises replaces the one in flight
DetachDisconnect(w) ==
    /\ ~Returning
    /\ pc[w] = "disconnect"
    /\ LET ci == conn[w]
           dev == RPartitionTail(mp[w])
       IN  IF ~Registered(ci.driver_volume_type)
           THEN /\ vdm' = [vdm EXCEPT ![w] =
                        Append(@, Dispatch("disconnect_volume", "", dev, TRUE))]
                /\ exc' = [exc EXCEPT ![w] = VolumeDriverNotFound(ci.driver_volume_type)]
                /\ UNCHANGED connected
           ELSE \/ /\ vdm' = [vdm EXCEPT ![w] = Append(@,
                            Dispatch("disconnect_volume", ci.driver_volume_type, dev, FALSE))]
                   /\ connected' = connected \ {Device(ci)}
                   /\ UNCHANGED exc
                \/ /\ vdm' = [vdm EXCEPT ![w] = Append(@,
                            Dispatch("disconnect_volume", ci.driver_volume_type, dev, TRUE))]
                   /\ exc' = [exc EXCEPT ![w] = SubDriverError]
                   /\ UNCHANGED connected
    /\ pc' = [pc EXCEPT ![w] = "done"]
    /\ UNCHANGED <<targets, use_unsafe_iscsi, op, conn, inst, mp, pxe_ip, iqn, tid, tgt,
                   warned, ncalls, pvars>>

(***************************************************************************)
(* The driver with its callers running concurrently.                       *)
(***************************************************************************)
\* the calls the compute framework makes, while it has made fewer than MaxCalls
StartAttach(w) ==
    /\ ncalls < MaxCalls
    /\ \E ci \in ConnInfos, e \in Exports, ip \in {NoPxeIp} \cup PxeAddresses :
          AttachStart(w, ci, e, ip)

StartDetach(w) ==
    /\ ncalls < MaxCalls
    /\ \E ci \in ConnInfos, e \in Exports : DetachFindTid(w, ci, e)

Next ==
    \E w \in Workers :
        \/ StartAttach(w)
        \/ AttachConnect(w)
        \/ AttachGetNextTid(w)
        \/ AttachNewTarget(w)
        \/ AttachNewLun(w)
        \/ AttachBind(w)
        \/ StartDetach(w)
        \/ DetachDeleteLun(w)
        \/ DetachDeleteTarget(w)
        \/ DetachShowTid(w)
        \/ DetachDisconnect(w)
        \/ Return(w)

Spec == Init /\ [][Next]_vars

(***************************************************************************)
(* The driver with its calls one at a time: a call starts only when no     *)
(* other call is under way.                                                *)
(***************************************************************************)
Quiet == \A w \in Workers : pc[w] = "idle"

SeqStartAttach(w) ==
    /\ Quiet
    /\ ncalls < MaxSeqCalls
    /\ \E ci \in ConnInfos, e \in Exports, ip \in {NoPxeIp} \cup PxeAddresses :
          AttachStart(w, ci, e, ip)

SeqStartDetach(w) ==
    /\ Quiet
    /\ ncalls < MaxSeqCalls
    /\ \E ci \in ConnInfos, e \in Exports : DetachFindTid(w, ci, e)

NextSeq ==
    \E w \in Workers :
        \/ SeqStartAttach(w)
        \/ AttachConnect(w)
        \/ AttachGetNextTid(w)
        \/ AttachNewTarget(w)
        \/ AttachNewLun(w)
        \/ AttachBind(w)
        \/ SeqStartDetach(w)
        \/ DetachDeleteLun(w)
        \/ DetachDeleteTarget(w)
        \/ DetachShowTid(w)
        \/ DetachDisconnect(w)
        \/ Return(w)

SpecSeq == Init /\ [][NextSeq]_vars

(***************************************************************************)
(* The driver with its calls one at a time, for mount points that put the  *)
(* normalisation of _get_iqn to work: separators at both ends, repeated    *)
(* separators, hyphens of their own, nothing but a separator.              *)
(***************************************************************************)
IqnMountpoints ==
    { <<"/", "c">>, <<"/", "/", "c", "/">>, <<"/", "b", "-", "c", "/">>,
      <<"/", "b", "/", "c">>, <<"-", "c">>, <<"/">> }

IqnExports == { [name |-> <<"a">>, mountpoint |-> m] : m \in IqnMountpoints }

IqnStartAttach(w) ==
    /\ Quiet
    /\ ncalls < MaxCalls
    /\ \E ci \in ConnInfos, e \in IqnExports, ip \in {NoPxeIp} \cup PxeAddresses :
          AttachStart(w, ci, e, ip)

IqnStartDetach(w) ==
    /\ Quiet
    /\ ncalls < MaxCalls
    /\ \E ci \in ConnInfos, e \in IqnExports : DetachFindTid(w, ci, e)

NextIqn ==
    \E w \in Workers :
        \/ IqnStartAttach(w)
        \/ AttachConnect(w)
        \/ AttachGetNextTid(w)
        \/ AttachNewTarget(w)
        \/ AttachNewLun(w)
        \/ AttachBind(w)
        \/ IqnStartDetach(w)
        \/ DetachDeleteLun(w)
        \/ DetachDeleteTarget(w)
        \/ DetachShowTid(w)
        \/ DetachDisconnect(w)
        \/ Return(w)

SpecIqn == Init /\ [][NextIqn]_vars

(***************************************************************************)
(* The parser and the allocator applied to status texts: any text of up to *)
(* MaxLines lines drawn from PoolLines, and any name of PoolIqns.          *)
(***************************************************************************)
PoolLines ==
    { <<"T", "a", "r", "g", "e", "t", " ", "3", ":", " ", "x">>,
      <<"T", "a", "r", "g", "e", "t", " ", "7", ":", " ", "y">>,
      <<"T", "a", "r", "g", "e", "t", " ", "1", "0", ":", " ", "x", "1">>,
      <<"T", "a", "r", "g", "e", "t", " ", "2", ":", " ", " ", "y">>,
      <<" ", "T", "a", "r", "g", "e", "t", " ", "9", ":", " ", "x">>,
      <<"T", "a", "r", "g", "e", "t", " ", ":", " ", "x">>,
      Indent \o BackingLit \o NoneLit,
      Indent \o BackingLit \o <<"/", "x">>,
      <<>> }

PoolIqns == { <<"x">>, <<"y">>, <<"x", "1">>, <<"z">> }

Texts == { Join(ls) : ls \in UNION { [1..n -> PoolLines] : n \in 0..MaxLines } }

InitParse ==
    /\ InitDriver
    /\ use_unsafe_iscsi = FALSE
    /\ ptext \in Texts
    /\ piqn \in PoolIqns
    /\ r_next_tid = NotRun
    /\ r_find_tid = NotRun
    /\ r_block_devices = NotCalled

\* _get_next_tid on the text
ParseNextTid ==
    /\ ~r_next_tid.ran
    /\ r_next_tid' = Result(get_next_tid(ptext))
    /\ UNCHANGED <<dvars, wvars, ptext, piqn, r_find_tid, r_block_devices>>

\* _find_tid on the text
ParseFindTid ==
    /\ ~r_find_tid.ran
    /\ r_find_tid' = Result(find_tid(ptext, piqn))
    /\ UNCHANGED <<dvars, wvars, ptext, piqn, r_next_tid, r_block_devices>>

NextParse == ParseNextTid \/ ParseFindTid

SpecParse == InitParse /\ [][NextParse]_vars

(***************************************************************************)
(* get_all_block_devices applied to status texts: any text of up to        *)
(* MaxLines lines drawn from PoolBackingLines.                             *)
(***************************************************************************)
PoolBackingLines ==
    { Indent \o BackingLit \o NoneLit,
      Indent \o BackingLit \o <<"/", "x">>,
      Indent \o BackingLit \o <<"/", "y">>,
      BackingLit \o <<"x", "/", "y">>,
      Indent \o BackingLit,
      <<"B", "a", "c", "k", "i", "n", "g", " ", "s", "t", "o", "r", "e", " ",
        "p", "a", "t", "h", ":", "/", "x">>,
      TargetLit \o <<"3", ":", " ", "/", "x">>,
      <<>> }

BackingTexts ==
    { Join(ls) : ls \in UNION { [1..n -> PoolBackingLines] : n \in 0..MaxLines } }

InitBlockDevices ==
    /\ InitDriver
    /\ use_unsafe_iscsi = FALSE
    /\ ptext \in BackingTexts
    /\ piqn = <<>>
    /\ r_next_tid = NotRun
    /\ r_find_tid = NotRun
    /\ r_block_devices = NotCalled

\* lines 260-262 and 129-137: get_all_block_devices, with its _show_tgtadm
\* answering with the text or failing
get_all_block_devices ==
    /\ ~r_block_devices.ran
    /\ \E rc \in ShowCodes :
          r_block_devices' =
              IF rc = ExitOk THEN Returned(list_backingstore_path(ptext))
              ELSE Raised(ProcessExecutionError("show", 0, rc))
    /\ UNCHANGED <<dvars, wvars, ptext, piqn, r_next_tid, r_find_tid>>

SpecBlockDevices == InitBlockDevices /\ [][get_all_block_devices]_vars

(***************************************************************************)
(* Properties.                                                             *)
(***************************************************************************)
Last(s) == s[Len(s)]

SetMax(S) == CHOOSE x \in S : \A y \in S : y <= x

\* the commands of kind o that call w has executed
Cmds(w, o) == { i \in 1..Len(tgt[w]) : tgt[w][i].op = o }

\* the uses of the dispatcher for method m in call w
Dispatches(w, m) == { i \in 1..Len(vdm[w]) : vdm[w][i].method = m }

Attaching(w) == op[w] = "attach_volume"

Detaching(w) == op[w] = "detach_volume"

\* an attach for an instance without PXE address, unsafe mode being off
Refused(w) == Attaching(w) /\ pxe_ip[w] = NoPxeIp /\ ~use_unsafe_iscsi

\* C1: an attach for an instance without a PXE address, with unsafe mode off,
\* ends in its first step with the policy error: it has executed no tgtadm
\* command and has not used the dispatcher, and the step leaves the daemon's
\* targets and the connected devices as they were.
C1_PolicyErrorBeforeExport ==
    [][\A w \in Workers :
          (Refused(w)' /\ pc'[w] # pc[w]) =>
              /\ pc'[w] = "done"
              /\ exc'[w] = PolicyError
              /\ tgt'[w] = <<>>
              /\ vdm'[w] = <<>>
              /\ targets' = targets
              /\ connected' = connected]_vars

C1_Witness ==
    \E w \in Workers : Refused(w) /\ pc[w] = "done" /\ exc[w] = PolicyError

\* C2: every bind command of an attach carries the instance's PXE address when
\* it has one, and "ALL" only when it has none and unsafe mode is on; a target
\* is open to "ALL" only with unsafe mode on.
C2_BindAddressPolicy ==
    /\ \A w \in Workers : \A i \in Cmds(w, "bind") :
          /\ Attaching(w)
          /\ pxe_ip[w] # NoPxeIp => tgt[w][i].arg = pxe_ip[w]
          /\ pxe_ip[w] = NoPxeIp => tgt[w][i].arg = ALL
          /\ tgt[w][i].arg = ALL => pxe_ip[w] = NoPxeIp /\ use_unsafe_iscsi
    /\ \A j \in 1..Len(targets) :
          (\E k \in 1..Len(targets[j].acl) : targets[j].acl[k] = ALL) => use_unsafe_iscsi

C2_Witness ==
    \E w \in Workers : \E i \in Cmds(w, "bind") :
        /\ tgt[w][i].arg = ALL
        /\ tgt[w][i].rc = ExitOk
        /\ \E j \in 1..Len(targets) : targets[j].acl = <<ALL>>

\* C3: a detach that has ended has used the dispatcher for disconnect_volume
\* exactly once, whatever path it took, and not before its try block was left.
C3_DisconnectOnce ==
    \A w \in Workers :
        Detaching(w) =>
            /\ pc[w] = "done" => Cardinality(Dispatches(w, "disconnect_volume")) = 1
            /\ pc[w] # "done" => Dispatches(w, "disconnect_volume") = {}

C3_Witness ==
    \E w \in Workers :
        /\ Detaching(w)
        /\ pc[w] = "done"
        /\ exc[w] = ConsistencyError(tid[w])
        /\ Cmds(w, "delete_target") # {}
        /\ Cardinality(Dispatches(w, "disconnect_volume")) = 1

\* a detach whose deletion step has run to its existence check
Checked(w) == Detaching(w) /\ tgt[w] # <<>> /\ Last(tgt[w]).op = "show_tid"

\* C4, as stated: when the show of the deleted tid does not exit with 22, the
\* detach raises the consistency error naming the tid.
C4_Original ==
    \A w \in Workers :
        (Checked(w) /\ pc[w] = "done" /\ Last(tgt[w]).rc # ExitNoTarget) =>
            exc[w] = ConsistencyError(Last(tgt[w]).tid)

\* C4, amended: the deletion step raises the consistency error naming the tid
\* when the show exits with 0, re-raises the show's own execution error when
\* it exits with another code than 22, and returns normally only for 22; the
\* detach ends with that outcome unless its disconnect raises.
C4_ExistenceCheckOutcome ==
    \A w \in Workers :
        Checked(w) =>
            LET rc == Last(tgt[w]).rc
                t == Last(tgt[w]).tid
                outcome ==
                    IF rc = ExitOk THEN ConsistencyError(t)
                    ELSE IF rc = ExitNoTarget THEN NoExc
                    ELSE ProcessExecutionError("show_tid", t, rc)
            IN  /\ t = tid[w]
                /\ Cmds(w, "delete_target") # {}
                /\ pc[w] \in {"disconnect", "done"}
                /\ pc[w] = "disconnect" => exc[w] = outcome
                /\ (pc[w] = "done" /\ ~Last(vdm[w]).raised) => exc[w] = outcome

C4_Witness ==
    \E w \in Workers :
        /\ Checked(w)
        /\ pc[w] = "done"
        /\ Last(tgt[w]).rc \in OtherExitCodes
        /\ exc[w] = ProcessExecutionError("show_tid", tid[w], Last(tgt[w]).rc)

\* a detach whose _find_tid returned None
NotFound(w) == Detaching(w) /\ tid[w] = None

\* C5, as stated: a detach that finds no target executes no delete and no
\* per-target show, logs the condition, does not raise, and disconnects once.
C5_Original ==
    \A w \in Workers :
        (NotFound(w) /\ pc[w] = "done") =>
            /\ \A i \in 1..Len(tgt[w]) : tgt[w][i].op = "show"
            /\ warned[w] # <<>>
            /\ exc[w] = NoExc
            /\ Cardinality(Dispatches(w, "disconnect_volume")) = 1

\* C5, amended: a detach that finds no target executes no delete and no
\* per-target show, logs the condition, reaches its disconnect with no
\* exception in flight, disconnects once, and raises only what the
\* disconnect raised.
C5_NotFoundQuiet ==
    \A w \in Workers :
        NotFound(w) =>
            /\ pc[w] \in {"disconnect", "done"}
            /\ \A i \in 1..Len(tgt[w]) : tgt[w][i].op = "show"
            /\ warned[w] = <<"detach volume could not find tid">>
            /\ pc[w] = "disconnect" =>
                  exc[w] = NoExc /\ Dispatches(w, "disconnect_volume") = {}
            /\ pc[w] = "done" =>
                  /\ Cardinality(Dispatches(w, "disconnect_volume")) = 1
                  /\ ~Last(vdm[w]).raised => exc[w] = NoExc
                  /\ Last(vdm[w]).raised =>
                        exc[w] \in {SubDriverError,
                                    VolumeDriverNotFound(conn[w].driver_volume_type)}

C5_Witness ==
    \E w \in Workers :
        /\ NotFound(w)
        /\ pc[w] = "done"
        /\ exc[w] = NoExc
        /\ warned[w] # <<>>
        /\ targets # <<>>

\* one more than the largest tid the daemon holds
NextFreeTid == 1 + SetMax(LiveTids \cup {0})

\* C6: nothing keeps two attach calls apart.  The status read of an attach
\* changes nothing in the daemon and yields one more than the largest live tid,
\* whatever tids other attach calls hold for targets not yet created; and the
\* next step of an attach that holds a tid is createTarget with that tid.
C6_NoReservation ==
    [][\A w \in Workers :
          /\ (pc[w] = "get_next_tid" /\ pc'[w] = "new_target") =>
                /\ targets' = targets
                /\ tid'[w] = NextFreeTid
                /\ \A v \in Workers \ {w} :
                      (InWindow(v) /\ tid[v] = NextFreeTid) =>
                          (InWindow(v)' /\ tid'[v] = tid'[w])
          /\ (InWindow(w) /\ pc'[w] # pc[w]) =>
                /\ Last(tgt'[w]).op = "new_target"
                /\ Last(tgt'[w]).tid = tid[w]]_vars

\* both attach calls have read the status, neither has created its target,
\* and they hold the same tid
C6_Witness ==
    \E w \in Workers : \E v \in Workers \ {w} :
        /\ InWindow(w) /\ InWindow(v)
        /\ tid[w] = tid[v]
        /\ tid[w] \notin LiveTids
        /\ Cmds(w, "new_target") = {} /\ Cmds(v, "new_target") = {}

\* the numbers a target header of the text can carry
RefIds == 0..12

\* line is a target header with the number id
RefHeader(line, id) == StartsWith(line, TargetLit \o IntToStr(id) \o <<":">>)

RefIsHeader(line) == \E id \in RefIds : RefHeader(line, id)

RefHeaderId(line) == CHOOSE id \in RefIds : RefHeader(line, id)

\* the numbers of the target headers of a text
RefHeaderIds(text) ==
    LET lines == Split(text)
    IN  { id \in RefIds : \E i \in 1..Len(lines) : RefHeader(lines[i], id) }

\* C7: _get_next_tid returns one more than the largest number among the target
\* header lines of the text, and 1 when the text has none; other lines count
\* for nothing.
C7_NextTidIsMaxPlusOne ==
    r_next_tid.ran =>
        r_next_tid.val =
            IF RefHeaderIds(ptext) = {} THEN 1 ELSE SetMax(RefHeaderIds(ptext)) + 1

\* headers out of order and a line that is no header
C7_Witness ==
    /\ r_next_tid.ran
    /\ r_next_tid.val = 8
    /\ RefHeaderIds(ptext) = {3, 7}
    /\ RefHeader(Split(ptext)[1], 7)
    /\ \E i \in 1..Len(Split(ptext)) : ~RefIsHeader(Split(ptext)[i])

\* C8: with the calls one at a time, the tid an attach holds for createTarget
\* is the tid of no live target, and the live targets have distinct tids.
C8_AllocatedTidNotLive ==
    /\ \A w \in Workers : InWindow(w) => tid[w] \notin LiveTids
    /\ \A i, j \in 1..Len(targets) : i # j => targets[i].tid # targets[j].tid

C8_Witness ==
    \E w \in Workers :
        /\ InWindow(w)
        /\ Cardinality(LiveTids) >= 2
        /\ tid[w] \notin LiveTids

\* C9, as stated: once createTarget has succeeded with tid t and the IQN of
\* the export, _find_tid of that IQN on the daemon's status returns t.
C9_RoundTrip ==
    \A w \in Workers :
        (/\ Attaching(w)
         /\ pc[w] = "new_lun"
         /\ \E i \in 1..Len(targets) :
               targets[i].tid = tid[w] /\ targets[i].name = iqn[w]) =>
            find_tid(show_tgtadm, iqn[w]) = tid[w]

\* the name of a target header line: what follows the colon and the spaces
RefName(line) ==
    LET colon == IndexOf(line, ":")
    IN  From(line, colon + 1 + SpaceRun(line, colon + 1))

\* the first header line of the text with the given name, 0 when none
RefFirstNamed(text, name) ==
    LET lines == Split(text)
        hits == { i \in 1..Len(lines) : RefIsHeader(lines[i]) /\ RefName(lines[i]) = name }
    IN  IF hits = {} THEN 0 ELSE CHOOSE i \in hits : \A j \in hits : i <= j

\* C10, as stated: _find_tid returns the number of the first header whose name
\* equals iqn, and None when no header has a name equal to iqn.
C10_FindTidByEqualName ==
    r_find_tid.ran =>
        r_find_tid.val =
            IF RefFirstNamed(ptext, piqn) = 0 THEN None
            ELSE RefHeaderId(Split(ptext)[RefFirstNamed(ptext, piqn)])

\* C11, as stated: distinct (instance name, mount point) pairs get distinct
\* IQNs, so two attach calls for distinct pairs never hold the same IQN.
C11_DistinctPairsDistinctIqns ==
    \A w \in Workers : \A v \in Workers \ {w} :
        (/\ Attaching(w) /\ Attaching(v)
         /\ iqn[w] # <<>> /\ iqn[v] # <<>>
         /\ <<inst[w], mp[w]>> # <<inst[v], mp[v]>>) =>
            iqn[w] # iqn[v]

\* C12: every use of the dispatcher with a transport type that is no key of
\* the mapping raises VolumeDriverNotFound for that type, forwards to no
\* sub-driver and leaves the connected devices alone; every use with a known
\* type forwards the method named by the caller, once, to the sub-driver
\* registered for that type.
C12_DispatchByType ==
    [][\A w \in Workers :
          vdm'[w] # vdm[w] /\ vdm'[w] # <<>> =>
              LET d == Last(vdm'[w])
                  ty == conn[w].driver_volume_type
              IN  /\ vdm'[w] = Append(vdm[w], d)
                  /\ d.method = IF Attaching(w) THEN "connect_volume"
                                ELSE "disconnect_volume"
                  /\ ty \notin volume_drivers =>
                        /\ d.driver_type = "" /\ d.raised
                        /\ exc'[w] = VolumeDriverNotFound(ty)
                        /\ connected' = connected
                  /\ ty \in volume_drivers =>
                        /\ d.driver_type = ty
                        /\ d.raised => exc'[w] = SubDriverError /\ connected' = connected
                        /\ ~d.raised => exc'[w] = exc[w]]_vars

\* an attach with an unknown transport type has ended in the dispatcher
C12_Witness ==
    \E w \in Workers :
        /\ Attaching(w)
        /\ pc[w] = "done"
        /\ conn[w].driver_volume_type \notin volume_drivers
        /\ exc[w] = VolumeDriverNotFound(conn[w].driver_volume_type)
        /\ vdm[w] = <<Dispatch("connect_volume", "", RPartitionTail(mp[w]), TRUE)>>
        /\ tgt[w] = <<>>

\* the mount point with every "/" turned into "-", cut down to what lies
\* between its first and its last character other than "-"
RefNormalize(mountpoint) ==
    LET r == [i \in 1..Len(mountpoint) |->
                 IF mountpoint[i] = "/" THEN "-" ELSE mountpoint[i]]
        keep == { i \in 1..Len(r) : r[i] # "-" }
    IN  IF keep = {} THEN <<>>
        ELSE SubSeq(r, CHOOSE i \in keep : \A j \in keep : i <= j, SetMax(keep))

\* a call that has computed its iqn
HasIqn(w) ==
    \/ Attaching(w) /\ pc[w] \in {"get_next_tid", "new_target", "new_lun", "bind"}
    \/ Detaching(w)

\* C13: the iqn of a call is the prefix, a colon, the instance name, a hyphen
\* and the normalised mount point; attach and detach compute it alike, so a
\* detach holds the iqn an attach of the same pair holds.
C13_IqnFormat ==
    \A w \in Workers :
        HasIqn(w) =>
            iqn[w] = iscsi_iqn_prefix \o <<":">> \o inst[w] \o <<"-">>
                        \o RefNormalize(mp[w])

\* a detach for a mount point with separators at both ends has found the
\* target that an attach named
C13_Witness ==
    \E w \in Workers :
        /\ Detaching(w)
        /\ mp[w] = <<"/", "/", "c", "/">>
        /\ iqn[w] = <<"i", "q", "n", ":", "a", "-", "c">>
        /\ tid[w] \in LiveTids
        /\ TargetOf(tid[w]).name = iqn[w]

\* line is a backing-store line: the literal occurs in it
RefIsBacking(line) == \E k \in 1..Len(line) : StartsWith(From(line, k), BackingLit)

\* the value of a backing-store line: what follows the first literal
RefValue(line) ==
    LET k == CHOOSE i \in 1..Len(line) :
                 /\ StartsWith(From(line, i), BackingLit)
                 /\ \A j \in 1..(i - 1) : ~StartsWith(From(line, j), BackingLit)
    IN  From(line, k + Len(BackingLit))

\* the backing-store lines of a text whose value holds a "/"
RefRealBacking(lines) ==
    { i \in 1..Len(lines) :
        /\ RefIsBacking(lines[i])
        /\ \E k \in 1..Len(RefValue(lines[i])) : RefValue(lines[i])[k] = "/" }

\* C14: get_all_block_devices returns the values of the backing-store lines
\* whose value holds a path separator, one entry per such line and in the
\* order of the lines; no other line adds an entry.
C14_BlockDevicesInUse ==
    (r_block_devices.ran /\ r_block_devices.exc = NoExc) =>
        LET lines == Split(ptext)
            hits == RefRealBacking(lines)
            l == r_block_devices.val
        IN  /\ Len(l) = Cardinality(hits)
            /\ \A i \in hits :
                  l[Cardinality({ j \in hits : j <= i })] = RefValue(lines[i])

\* two real backing stores around a placeholder, returned in their order
C14_Witness ==
    /\ r_block_devices.ran
    /\ r_block_devices.val = << <<"/", "y">>, <<"/", "x">> >>
    /\ Len(Split(ptext)) = 3
    /\ Split(ptext)[2] = Indent \o BackingLit \o NoneLit

\* a detach whose _find_tid returned a tid
Found(w) == Detaching(w) /\ tgt[w][1].rc = ExitOk /\ tid[w] # None

\* the commands of the detach of a found target, in their order
DeletionOrder == <<"show", "delete_lun", "delete_target", "show_tid">>

\* C15: the detach of a found target executes delete-logical-unit, then
\* delete-target, then the show of the tid, each on the tid that was found and
\* whatever the exit codes of the deletes; no failure of a delete is in flight
\* afterwards; and once the show has exited with 22 the deletion step has
\* ended without an exception.
C15_DeletesAbsorbed ==
    \A w \in Workers :
        Found(w) =>
            /\ Len(tgt[w]) <= Len(DeletionOrder)
            /\ \A i \in 1..Len(tgt[w]) : tgt[w][i].op = DeletionOrder[i]
            /\ \A i \in 2..Len(tgt[w]) : tgt[w][i].tid = tid[w]
            /\ pc[w] = "delete_lun" => Len(tgt[w]) = 1 /\ exc[w] = NoExc
            /\ pc[w] = "delete_target" => Len(tgt[w]) = 2 /\ exc[w] = NoExc
            /\ pc[w] = "show_tid" => Len(tgt[w]) = 3 /\ exc[w] = NoExc
            /\ pc[w] \in {"disconnect", "done"} => Len(tgt[w]) = 4
            /\ (pc[w] = "disconnect" /\ Last(tgt[w]).rc = ExitNoTarget) => exc[w] = NoExc

\* the delete of the logical unit failed, the target was deleted all the same
\* and the show exited with 22
C15_Witness ==
    \E w \in Workers :
        /\ Found(w)
        /\ pc[w] = "disconnect"
        /\ Len(tgt[w]) = 4
        /\ tgt[w][2].rc # ExitOk
        /\ tgt[w][3].rc = ExitOk
        /\ tgt[w][4].rc = ExitNoTarget
        /\ exc[w] = NoExc

\* the steps of an attach that follow the connect of the device
AfterConnect == {"get_next_tid", "new_target", "new_lun", "bind"}

\* C16: when a command of an attach fails after the device was connected (the
\* status read, the new target, the new logical unit or the bind), the attach
\* ends in that step raising the command's execution error; the step leaves
\* the connected devices and the daemon's targets as they were, and the attach
\* has used the dispatcher for the connect only and executed no delete.
C16_NoRollback ==
    [][\A w \in Workers :
          (/\ Attaching(w)
           /\ pc[w] \in AfterConnect
           /\ pc'[w] # pc[w]
           /\ Last(tgt'[w]).rc # ExitOk) =>
              LET c == Last(tgt'[w])
              IN  /\ pc'[w] = "done"
                  /\ exc'[w] = ProcessExecutionError(c.op, c.tid, c.rc)
                  /\ connected' = connected
                  /\ targets' = targets
                  /\ vdm'[w] = vdm[w]
                  /\ Dispatches(w, "disconnect_volume") = {}
                  /\ Cardinality(Dispatches(w, "connect_volume")) = 1
                  /\ \A i \in 1..Len(tgt'[w]) :
                        tgt'[w][i].op \notin {"delete_lun", "delete_target"}]_vars

\* an attach has ended with the error of its bind: its device is connected
\* and its target, with its logical unit, is in the daemon
C16_Witness ==
    \E w \in Workers :
        /\ Attaching(w)
        /\ pc[w] = "done"
        /\ exc[w].type = "ProcessExecutionError"
        /\ Last(tgt[w]).op = "bind"
        /\ Device(conn[w]) \in connected
        /\ tid[w] \in LiveTids
        /\ TargetOf(tid[w]).name = iqn[w]
        /\ TargetOf(tid[w]).lun = conn[w].device_path
        /\ TargetOf(tid[w]).acl = <<>>

\* the commands of an attach, in their order
AttachOrder == <<"show", "new_target", "new_lun", "bind">>

\* C17: the commands of an attach are the status read, the new target, the
\* new logical unit and the bind, in this order and each once; none is
\* executed before the connect of the device and the command before it have
\* succeeded; the three that follow the status read carry the tid the attach
\* took; and an attach that returns has executed all four with success.
C17_AttachOrder ==
    \A w \in Workers :
        Attaching(w) =>
            /\ Len(tgt[w]) <= Len(AttachOrder)
            /\ \A i \in 1..Len(tgt[w]) : tgt[w][i].op = AttachOrder[i]
            /\ \A i \in 1..(Len(tgt[w]) - 1) : tgt[w][i].rc = ExitOk
            /\ \A i \in 2..Len(tgt[w]) : tgt[w][i].tid = tid[w]
            /\ tgt[w] # <<>> =>
                  vdm[w] = <<Dispatch("connect_volume", conn[w].driver_volume_type,
                                      RPartitionTail(mp[w]), FALSE)>>
            /\ (pc[w] = "done" /\ exc[w] = NoExc) =>
                  /\ Len(tgt[w]) = Len(AttachOrder)
                  /\ Last(tgt[w]).rc = ExitOk

\* an attach has returned: its target is in the daemon with its logical unit
\* and its initiator address
C17_Witness ==
    \E w \in Workers :
        /\ Attaching(w)
        /\ pc[w] = "done"
        /\ exc[w] = NoExc
        /\ Len(tgt[w]) = 4
        /\ tid[w] \in LiveTids
        /\ TargetOf(tid[w]).lun = conn[w].device_path
        /\ TargetOf(tid[w]).acl = <<BindAddress(pxe_ip[w])>>

\* C18, as stated: a detach whose show of the deleted tid did not exit with
\* 22 ends raising the failure of that check, whatever its disconnect did.
C18_CheckFailureRaised ==
    \A w \in Workers :
        (Checked(w) /\ pc[w] = "done" /\ Last(tgt[w]).rc # ExitNoTarget) =>
            exc[w] = IF Last(tgt[w]).rc = ExitOk
                     THEN ConsistencyError(Last(tgt[w]).tid)
                     ELSE ProcessExecutionError("show_tid", Last(tgt[w]).tid,
                                                Last(tgt[w]).rc)

\* C19, as stated: no step of a detach changes or removes a live target whose
\* name is not the iqn of the detach.
C19_OtherTargetsUnchanged ==
    [][\A w \in Workers :
          Detaching(w) =>
              \A i \in 1..Len(targets) :
                  targets[i].name # iqn[w] =>
                      \E j \in 1..Len(targets') : targets'[j] = targets[i]]_vars

====
